---- MODULE Spec2Model ----
(***************************************************************************)
(* Pulse: the Electron main process (src/electron/src/index.ts), which     *)
(* owns the browser tabs, and the renderer (src/electron/src/App.tsx),     *)
(* which mirrors the tabs and holds the WebSocket to the backend.          *)
(***************************************************************************)
EXTENDS Integers, Sequences, FiniteSets, TLC

\* ------------------------------------------------------------------ bounds
\* Spec: tabs created in one run; main -> renderer messages not yet delivered
MaxTabs == 3
MaxEvents == 2
\* ExecSpec: tabs created; messages not yet delivered; execute-action calls
\* suspended at one time
ExecMaxTabs == 2
ExecMaxEvents == 2
MaxPending == 1
\* TransportSpec: tabs created; messages not yet delivered; WebSockets that are
\* not yet closed plus reconnect timers not yet fired
ConnMaxTabs == 2
ConnMaxEvents == 2
MaxConns == 2
\* BridgeSpec: tabs created; messages not yet delivered; `action` messages received
BridgeMaxTabs == 2
BridgeMaxEvents == 2
MaxActions == 2
\* VoiceSpec: tabs created; messages not yet delivered; `action` messages
\* received; getUserMedia calls not yet settled plus streams being captured
VoiceMaxTabs == 2
VoiceMaxEvents == 2
VoiceMaxActions == 1
MaxMic == 2
\* FrameSpec: bytes of an audio or image payload
MaxPayload == 3
\* CaptureSpec: tabs created; messages not yet delivered; capturePage calls
\* not yet settled
CaptureMaxTabs == 2
CaptureMaxEvents == 2
MaxCaptures == 2
\* NotifySpec: tabs created; messages not yet delivered
NotifyMaxTabs == 2
NotifyMaxEvents == 2

\* ------------------------------------------------------------------ values
\* `null` of activeTabId (ids start at 1)
NoTab == 0

\* urls handed to create-tab / navigate
Locations == {"", "example.com", "http://x"}

\* ActionCommand payloads handed to execute-action; an omitted field is absent
\* from the record (undefined in the source)
ActionInputs ==
  {[type |-> "click"], [type |-> "click", x |-> 10, y |-> 10], [type |-> "click", x |-> 10]}
    \cup {[type |-> "type"], [type |-> "type", text |-> ""], [type |-> "type", text |-> "ab"]}
    \cup {[type |-> "scroll"], [type |-> "scroll", direction |-> "up", amount |-> 120],
          [type |-> "scroll", direction |-> "down", amount |-> 0]}
    \cup {[type |-> t] : t \in {"enter", "back", "forward", "extract-text", "submit", "action"}}

VARIABLES
  mainWindow,    \* index.ts:18  TRUE while the BrowserWindow exists
  tabs,          \* index.ts:19  the Map, as the sequence of its values in insertion order
  activeTabId,   \* index.ts:20
  nextTabId,     \* index.ts:21
  assigned,      \* history: the ids createTab has assigned, in order
  events,        \* mainWindow.webContents.send messages not yet delivered to the renderer
  wcCalls,       \* calls the last main-process handler made on tabs' webContents
  reply,         \* what the last ipcMain handler returned to its caller
  pendingEval,   \* execute-action calls suspended in `await wc.executeJavaScript(...)`
  mounted,       \* App.tsx: App is rendered and its effects have run
  uiTabs,        \* App.tsx:22
  uiActiveTabId, \* App.tsx:23
  effectDep,     \* App.tsx:105,196  the activeTabId the current connectWS was made with
  conns,         \* the WebSockets connectWS has made: readyState of each
  wsRef,         \* App.tsx:27  wsRef.current (0 = null)
  wsConnected,   \* App.tsx:26
  timers,        \* setTimeout(connectWS, 3000) calls not yet fired
  logged,        \* what the last renderer handler passed to addLog
  backendUp,     \* environment: the backend accepts connections
  agentState,    \* App.tsx:24
  micPending,    \* VoiceOrb: getUserMedia calls of startListening not yet settled
  capturing,     \* VoiceOrb: microphone streams whose processor is producing audio
  streamRef,     \* VoiceOrb: audioStreamRef.current is a stream (not null)
  sent,          \* what the last renderer handler passed to WebSocket.send
  inflight,      \* ws.onmessage calls suspended in `await window.pulse...`, oldest first
  actionSeq,     \* history: number of `action` messages received
  discarded,     \* history: the last ws.onmessage call ended in its catch
  closureTab,    \* App.tsx:105  the activeTabId each WebSocket's connectWS closed over
  timerDeps,     \* the same for the connectWS of each pending timer, oldest first
  screenshotInterval, \* index.ts:22,260  setInterval timers that are armed
  pendingCapture, \* interval callbacks suspended in `await captureActiveTab()`
  skipped,       \* history: the last interval callback to end sent nothing
  notified       \* history: the tab whose webContents raised the last notification,
                 \* and whether it was in the Map then

mainVars == <<mainWindow, tabs, activeTabId, nextTabId, assigned, events, wcCalls, reply, pendingEval>>
uiVars == <<mounted, uiTabs, uiActiveTabId>>
wsVars == <<effectDep, conns, wsRef, wsConnected, timers, logged>>
voiceVars == <<agentState, micPending, capturing, streamRef>>
bridgeVars == <<sent, inflight, actionSeq, discarded, closureTab, timerDeps>>
captureVars == <<screenshotInterval, pendingCapture, skipped>>

\* ------------------------------------------------------------------ helpers
startsWith(s, p) == Len(s) >= Len(p) /\ SubSeq(s, 1, Len(p)) = p

\* `url.startsWith('http') ? url : `https://${url}``
fullUrl(url) == IF startsWith(url, "http") THEN url ELSE "https://" \o url

\* Array.from(tabs.keys())
tabKeys(ts) == [i \in DOMAIN ts |-> ts[i].id]

\* tabs.has(id)
hasTab(ts, id) == \E i \in DOMAIN ts : ts[i].id = id

\* tabs.delete(id)
RECURSIVE deleteTab(_, _)
deleteTab(ts, id) ==
  IF ts = <<>> THEN <<>>
  ELSE IF Head(ts).id = id THEN deleteTab(Tail(ts), id)
  ELSE <<Head(ts)>> \o deleteTab(Tail(ts), id)

\* the main process's mutable state, threaded through the functions below
M == [mainWindow |-> mainWindow, tabs |-> tabs, activeTabId |-> activeTabId,
      nextTabId |-> nextTabId, assigned |-> assigned, events |-> events,
      wcCalls |-> <<>>]

\* mainWindow?.webContents.send(channel, data)
send(m, ev) == IF m.mainWindow THEN [m EXCEPT !.events = Append(@, ev)] ELSE m

\* ------------------------------------------------------------------ tab management
\* mutant: the other tabs' views are left as they are
switchToTabKeepsOthers(m, id) ==
  IF ~m.mainWindow THEN m
  ELSE IF ~hasTab(m.tabs, id) THEN m
  ELSE send([m EXCEPT
               !.tabs = [i \in DOMAIN m.tabs |->
                           IF m.tabs[i].id = id
                             THEN [m.tabs[i] EXCEPT !.attached = TRUE, !.visible = TRUE]
                             ELSE m.tabs[i]],
               !.activeTabId = id],
            [type |-> "tab-switched", id |-> id])

switchToTab(m, id) ==
  IF ~m.mainWindow THEN m
  ELSE IF ~hasTab(m.tabs, id) THEN m
  ELSE send([m EXCEPT
               !.tabs = [i \in DOMAIN m.tabs |->
                           IF m.tabs[i].id = id
                             THEN [m.tabs[i] EXCEPT !.attached = TRUE, !.visible = TRUE]
                             ELSE [m.tabs[i] EXCEPT !.visible = FALSE]],
               !.activeTabId = id],
            [type |-> "tab-switched", id |-> id])

\* mutant: the id is the size of the Map plus one instead of a counter
createTabReusesId(m, url) ==
  LET id == Len(m.tabs) + 1
      tab == [id |-> id, url |-> url, title |-> "New Tab", attached |-> FALSE, visible |-> TRUE]
      m1 == [m EXCEPT !.nextTabId = id + 1,
                      !.assigned = Append(@, id),
                      !.tabs = Append(@, tab),
                      !.wcCalls = IF url # ""
                                    THEN Append(@, [tab |-> id, call |-> "loadURL", url |-> fullUrl(url)])
                                    ELSE @]
  IN send(switchToTab(m1, id), [type |-> "tab-created", id |-> id, url |-> url, title |-> "New Tab"])

\* mutant: the new tab is not switched to
createTabNoSwitch(m, url) ==
  LET id == m.nextTabId
      tab == [id |-> id, url |-> url, title |-> "New Tab", attached |-> FALSE, visible |-> TRUE]
      m1 == [m EXCEPT !.nextTabId = id + 1,
                      !.assigned = Append(@, id),
                      !.tabs = Append(@, tab),
                      !.wcCalls = IF url # ""
                                    THEN Append(@, [tab |-> id, call |-> "loadURL", url |-> fullUrl(url)])
                                    ELSE @]
  IN send(m1, [type |-> "tab-created", id |-> id, url |-> url, title |-> "New Tab"])

createTab(m, url) ==
  LET id == m.nextTabId
      tab == [id |-> id, url |-> url, title |-> "New Tab", attached |-> FALSE, visible |-> TRUE]
      m1 == [m EXCEPT !.nextTabId = id + 1,
                      !.assigned = Append(@, id),
                      !.tabs = Append(@, tab),
                      !.wcCalls = IF url # ""
                                    THEN Append(@, [tab |-> id, call |-> "loadURL", url |-> fullUrl(url)])
                                    ELSE @]
  IN send(switchToTab(m1, id), [type |-> "tab-created", id |-> id, url |-> url, title |-> "New Tab"])

\* mutant: activeTabId is not reset when the last tab is closed
closeTabKeepsActive(m, id) ==
  IF ~hasTab(m.tabs, id) \/ ~m.mainWindow THEN m
  ELSE LET m1 == [m EXCEPT !.tabs = deleteTab(@, id)]
           remaining == tabKeys(m1.tabs)
           m2 == IF m1.activeTabId = id /\ Len(remaining) > 0
                   THEN switchToTab(m1, remaining[Len(remaining)])
                   ELSE m1
       IN send(m2, [type |-> "tab-closed", id |-> id])

\* mutant: the fallback is the first remaining tab, not the last
closeTabFirstRemaining(m, id) ==
  IF ~hasTab(m.tabs, id) \/ ~m.mainWindow THEN m
  ELSE LET m1 == [m EXCEPT !.tabs = deleteTab(@, id)]
           remaining == tabKeys(m1.tabs)
           m2 == IF m1.activeTabId = id
                   THEN IF Len(remaining) > 0
                          THEN switchToTab(m1, remaining[1])
                          ELSE [m1 EXCEPT !.activeTabId = NoTab]
                   ELSE m1
       IN send(m2, [type |-> "tab-closed", id |-> id])

\* mutant: closing the active tab activates no other tab
closeTabNoFallback(m, id) ==
  IF ~hasTab(m.tabs, id) \/ ~m.mainWindow THEN m
  ELSE LET m1 == [m EXCEPT !.tabs = deleteTab(@, id)]
           m2 == IF m1.activeTabId = id THEN [m1 EXCEPT !.activeTabId = NoTab] ELSE m1
       IN send(m2, [type |-> "tab-closed", id |-> id])

\* mutant: the `!tab` guard is missing, so an unknown id is "closed" too
closeTabNoGuard(m, id) ==
  IF ~m.mainWindow THEN m
  ELSE LET m1 == [m EXCEPT !.tabs = deleteTab(@, id)]
           remaining == tabKeys(m1.tabs)
           m2 == IF m1.activeTabId = id
                   THEN IF Len(remaining) > 0
                          THEN switchToTab(m1, remaining[Len(remaining)])
                          ELSE [m1 EXCEPT !.activeTabId = NoTab]
                   ELSE m1
       IN send(m2, [type |-> "tab-closed", id |-> id])

closeTab(m, id) ==
  IF ~hasTab(m.tabs, id) \/ ~m.mainWindow THEN m
  ELSE LET m1 == [m EXCEPT !.tabs = deleteTab(@, id)]
           remaining == tabKeys(m1.tabs)
           m2 == IF m1.activeTabId = id
                   THEN IF Len(remaining) > 0
                          THEN switchToTab(m1, remaining[Len(remaining)])
                          ELSE [m1 EXCEPT !.activeTabId = NoTab]
                   ELSE m1
       IN send(m2, [type |-> "tab-closed", id |-> id])

\* mutant: the update is sent whether or not the tab is still in the Map
didNavigateUnguarded(m, id, navUrl) ==
  IF hasTab(m.tabs, id)
    THEN LET i == CHOOSE j \in DOMAIN m.tabs : m.tabs[j].id = id
         IN send([m EXCEPT !.tabs[i].url = navUrl],
                 [type |-> "tab-updated", id |-> id, url |-> navUrl, title |-> m.tabs[i].title])
    ELSE send(m, [type |-> "tab-updated", id |-> id, url |-> navUrl, title |-> "New Tab"])

\* the 'did-navigate' listener of tab id's webContents (index.ts:35-41)
didNavigate(m, id, navUrl) ==
  IF hasTab(m.tabs, id)
    THEN LET i == CHOOSE j \in DOMAIN m.tabs : m.tabs[j].id = id
         IN send([m EXCEPT !.tabs[i].url = navUrl],
                 [type |-> "tab-updated", id |-> id, url |-> navUrl, title |-> m.tabs[i].title])
    ELSE m

\* the 'page-title-updated' listener of tab id's webContents (index.ts:43-49)
pageTitleUpdated(m, id, title) ==
  IF hasTab(m.tabs, id)
    THEN LET i == CHOOSE j \in DOMAIN m.tabs : m.tabs[j].id = id
         IN send([m EXCEPT !.tabs[i].title = title],
                 [type |-> "tab-updated", id |-> id, url |-> m.tabs[i].url, title |-> title])
    ELSE m

\* ipcMain.handle('get-tabs')
getTabs(m) ==
  [i \in DOMAIN m.tabs |->
     [id |-> m.tabs[i].id, url |-> m.tabs[i].url, title |-> m.tabs[i].title,
      active |-> (m.tabs[i].id = m.activeTabId)]]

\* mutant: navigate opens a tab whether or not one is active
navigateAlwaysOpens(m, url) == createTab(m, url)

\* ipcMain.handle('navigate')
navigate(m, url) ==
  IF m.activeTabId = NoTab THEN createTab(m, url)
  ELSE IF hasTab(m.tabs, m.activeTabId)
         THEN [m EXCEPT !.wcCalls = Append(@, [tab |-> m.activeTabId, call |-> "loadURL",
                                               url |-> fullUrl(url)])]
         ELSE m

\* ------------------------------------------------------------------ action executor
inputEvent(id, type, key) == [tab |-> id, call |-> "sendInputEvent", type |-> type, keyCode |-> key]

\* mutant: only the first character is typed
typeEventsFirstOnly(id, text, i) ==
  IF i > Len(text) THEN <<>>
  ELSE LET c == SubSeq(text, i, i)
       IN <<inputEvent(id, "keyDown", c), inputEvent(id, "char", c), inputEvent(id, "keyUp", c)>>

\* `for (const char of action.text)`: keyDown, char, keyUp per character
RECURSIVE typeEvents(_, _, _)
typeEvents(id, text, i) ==
  IF i > Len(text) THEN <<>>
  ELSE LET c == SubSeq(text, i, i)
       IN <<inputEvent(id, "keyDown", c), inputEvent(id, "char", c), inputEvent(id, "keyUp", c)>>
            \o typeEvents(id, text, i + 1)

\* `action.amount || 500`
amountOr500(action) ==
  IF "amount" \in DOMAIN action /\ action.amount # 0 THEN action.amount ELSE 500

\* `action.direction === 'up' ? -(amount) : (amount)`
scrollDy(action) ==
  IF "direction" \in DOMAIN action /\ action.direction = "up"
    THEN 0 - amountOr500(action) ELSE amountOr500(action)

\* what execute-action hands back to its caller: the calls made on the tab's
\* webContents, the result, and whether it is suspended in an await first
done(calls, result) == [calls |-> calls, result |-> result, await |-> "none"]

\* `switch (action.type)` of execute-action (index.ts:170-210).
\* can: what wc.canGoBack() / wc.canGoForward() answers.
dispatch(id, action, can) ==
  CASE action.type = "click" ->
         done(IF "x" \in DOMAIN action /\ "y" \in DOMAIN action
                THEN <<[tab |-> id, call |-> "sendInputEvent", type |-> "mouseDown",
                        x |-> action.x, y |-> action.y],
                       [tab |-> id, call |-> "sendInputEvent", type |-> "mouseUp",
                        x |-> action.x, y |-> action.y]>>
                ELSE <<>>,
              [success |-> TRUE])
    [] action.type = "type" ->
         done(IF "text" \in DOMAIN action /\ action.text # ""
                THEN typeEvents(id, action.text, 1) ELSE <<>>,
              [success |-> TRUE])
    [] action.type = "scroll" ->
         [calls |-> <<[tab |-> id, call |-> "executeJavaScript", js |-> "scrollBy",
                       dy |-> scrollDy(action)]>>,
          result |-> [success |-> TRUE], await |-> "scroll"]
    [] action.type = "enter" ->
         done(<<inputEvent(id, "keyDown", "Return"), inputEvent(id, "keyUp", "Return")>>,
              [success |-> TRUE])
    [] action.type = "back" ->
         done(IF can THEN <<[tab |-> id, call |-> "goBack"]>> ELSE <<>>, [success |-> TRUE])
    [] action.type = "forward" ->
         done(IF can THEN <<[tab |-> id, call |-> "goForward"]>> ELSE <<>>, [success |-> TRUE])
    [] action.type = "extract-text" ->
         [calls |-> <<[tab |-> id, call |-> "executeJavaScript", js |-> "innerText"]>>,
          result |-> [success |-> TRUE, text |-> "innerText"], await |-> "extract-text"]
    [] OTHER ->
         done(<<>>, [success |-> FALSE, error |-> "Unknown action: " \o action.type])

\* mutant: the command tag is looked at before the active tab is
executeActionTagFirst(m, action, can) ==
  IF action.type \notin {"click", "type", "scroll", "enter", "back", "forward", "extract-text"}
    THEN done(<<>>, [success |-> FALSE, error |-> "Unknown action: " \o action.type])
  ELSE IF m.activeTabId = NoTab THEN done(<<>>, [success |-> FALSE, error |-> "No active tab"])
  ELSE IF ~hasTab(m.tabs, m.activeTabId)
         THEN done(<<>>, [success |-> FALSE, error |-> "Tab not found"])
         ELSE dispatch(m.activeTabId, action, can)

\* mutant: a command whose tag is not known is answered with success
executeActionUnknownOk(m, action, can) ==
  IF m.activeTabId = NoTab THEN done(<<>>, [success |-> FALSE, error |-> "No active tab"])
  ELSE IF ~hasTab(m.tabs, m.activeTabId)
         THEN done(<<>>, [success |-> FALSE, error |-> "Tab not found"])
  ELSE IF action.type \notin {"click", "type", "scroll", "enter", "back", "forward", "extract-text"}
         THEN done(<<>>, [success |-> TRUE])
         ELSE dispatch(m.activeTabId, action, can)

\* ipcMain.handle('execute-action'), up to its return or its first await
executeAction(m, action, can) ==
  IF m.activeTabId = NoTab THEN done(<<>>, [success |-> FALSE, error |-> "No active tab"])
  ELSE IF ~hasTab(m.tabs, m.activeTabId)
         THEN done(<<>>, [success |-> FALSE, error |-> "Tab not found"])
         ELSE dispatch(m.activeTabId, action, can)

\* ------------------------------------------------------------------ renderer: tab mirror
\* window.pulse.onTabCreated / onTabUpdated / onTabSwitched / onTabClosed callbacks
onTabEvent(u, ev) ==
  CASE ev.type = "tab-created" ->
         [u EXCEPT !.uiTabs = Append(@, [id |-> ev.id, url |-> ev.url, title |-> ev.title,
                                        active |-> TRUE]),
                   !.uiActiveTabId = ev.id]
    [] ev.type = "tab-switched" ->
         [u EXCEPT !.uiActiveTabId = ev.id,
                   !.uiTabs = [i \in DOMAIN u.uiTabs |->
                                 [u.uiTabs[i] EXCEPT !.active = (u.uiTabs[i].id = ev.id)]]]
    [] ev.type = "tab-closed" ->
         [u EXCEPT !.uiTabs = SelectSeq(u.uiTabs, LAMBDA t : t.id # ev.id)]
    [] ev.type = "tab-updated" ->
         [u EXCEPT !.uiTabs = [i \in DOMAIN u.uiTabs |->
                                 IF u.uiTabs[i].id = ev.id
                                   THEN [u.uiTabs[i] EXCEPT !.url = ev.url, !.title = ev.title]
                                   ELSE u.uiTabs[i]]]
    [] OTHER -> u

\* ------------------------------------------------------------------ renderer: WebSocket
\* the renderer's mutable transport state, threaded through the functions below
R == [conns |-> conns, wsRef |-> wsRef, wsConnected |-> wsConnected, timers |-> timers,
      logged |-> <<>>]

NoConns == [c \in 1..MaxConns |-> "CLOSED"]

\* WebSockets whose close event has not fired yet
live(cs) == {c \in DOMAIN cs : cs[c] # "CLOSED"}

\* a slot for a new WebSocket object: a socket that is CLOSED takes no further part
freeSlot(cs) == CHOOSE c \in DOMAIN cs : cs[c] = "CLOSED" /\ \A d \in DOMAIN cs : cs[d] = "CLOSED" => c <= d

addLog(r, type, text) == [r EXCEPT !.logged = Append(@, [type |-> type, text |-> text])]

\* connectWS: `new WebSocket(wsUrl)` ... `wsRef.current = ws`
connectWS(r) == LET c == freeSlot(r.conns) IN [r EXCEPT !.conns[c] = "CONNECTING", !.wsRef = c]

\* `wsRef.current?.close()`; the close event fires later
closeCurrent(r) ==
  IF r.wsRef # 0 /\ r.conns[r.wsRef] \in {"CONNECTING", "OPEN"}
    THEN [r EXCEPT !.conns[r.wsRef] = "CLOSING"] ELSE r

onopen(r) == addLog([r EXCEPT !.wsConnected = TRUE], "agent", "Connected to Pulse backend")

\* mutant: no reconnection is scheduled
oncloseNoRetry(r) ==
  addLog([r EXCEPT !.wsConnected = FALSE], "error", "Disconnected from backend. Reconnecting...")

onclose(r) ==
  [addLog([r EXCEPT !.wsConnected = FALSE], "error", "Disconnected from backend. Reconnecting...")
     EXCEPT !.timers = @ + 1]

onerror(r) == addLog(r, "error", "Connection error")

\* ------------------------------------------------------------------ renderer: outbound frames
\* the 64 digits of base64, and the digit of a 6-bit value
Alphabet == "ABCDEFGHIJKLMNOPQRSTUVWXYZabcdefghijklmnopqrstuvwxyz0123456789+/"

Digits == [n \in 0..63 |-> SubSeq(Alphabet, n + 1, n + 1)]

digit(n) == Digits[n]

\* the 6-bit value of each base64 digit
Values == [ch \in {Digits[n] : n \in 0..63} |-> CHOOSE n \in 0..63 : Digits[n] = ch]

value(ch) == Values[ch]

\* `buf.toString('base64')` (index.ts:153,263): three bytes make four digits,
\* a last group of one or two bytes is padded with "="
RECURSIVE toBase64(_)
toBase64(b) ==
  IF Len(b) = 0 THEN ""
  ELSE IF Len(b) = 1
    THEN digit(b[1] \div 4) \o digit((b[1] % 4) * 16) \o "=="
  ELSE IF Len(b) = 2
    THEN digit(b[1] \div 4) \o digit((b[1] % 4) * 16 + b[2] \div 16)
           \o digit((b[2] % 16) * 4) \o "="
  ELSE digit(b[1] \div 4) \o digit((b[1] % 4) * 16 + b[2] \div 16)
         \o digit((b[2] % 16) * 4 + b[3] \div 64) \o digit(b[3] % 64)
         \o toBase64(SubSeq(b, 4, Len(b)))

\* `atob(base64)`: the binary string, as the sequence of its char codes
RECURSIVE atob(_)
atob(str) ==
  IF Len(str) < 4 THEN <<>>
  ELSE LET d1 == value(SubSeq(str, 1, 1))
           d2 == value(SubSeq(str, 2, 2))
       IN IF SubSeq(str, 3, 4) = "==" THEN <<d1 * 4 + d2 \div 16>>
          ELSE LET d3 == value(SubSeq(str, 3, 3))
               IN IF SubSeq(str, 4, 4) = "="
                    THEN <<d1 * 4 + d2 \div 16, (d2 % 16) * 16 + d3 \div 4>>
                    ELSE <<d1 * 4 + d2 \div 16, (d2 % 16) * 16 + d3 \div 4,
                           (d3 % 4) * 64 + value(SubSeq(str, 4, 4))>>
                           \o atob(SubSeq(str, 5, Len(str)))

\* sendAudio's `combined`: the header byte 0x01, then the bytes of pcmData
audioFrame(pcmData) == <<1>> \o pcmData

\* mutant: the image is tagged as audio
screenshotFrameAudioTag(base64) ==
  LET bytes == atob(base64)
  IN <<1>> \o [i \in 1..Len(bytes) |-> bytes[i] % 256]

\* sendScreenshot's `buffer`: 0x02, then the char code of each character of
\* atob(base64), stored in a Uint8Array
screenshotFrame(base64) ==
  LET bytes == atob(base64)
  IN <<2>> \o [i \in 1..Len(bytes) |-> bytes[i] % 256]

\* what a handler passes to WebSocket.send: the socket, a binary frame or a
\* JSON text, and for an action_result the number of the action it answers
binaryMsg(c, bytes) == [conn |-> c, kind |-> "binary", bytes |-> bytes, json |-> [type |-> "none"], re |-> 0]
textMsg(c, json, n) == [conn |-> c, kind |-> "text", bytes |-> <<>>, json |-> json, re |-> n]

\* `wsRef.current?.readyState === WebSocket.OPEN`
currentOpen(r) == r.wsRef # 0 /\ r.conns[r.wsRef] = "OPEN"

\* the three senders: what is passed to send and to addLog
sendAudio(r, pcmData) ==
  [sent |-> IF currentOpen(r) THEN <<binaryMsg(r.wsRef, audioFrame(pcmData))>> ELSE <<>>,
   logged |-> <<>>]

sendScreenshot(r, base64) ==
  [sent |-> IF currentOpen(r) THEN <<binaryMsg(r.wsRef, screenshotFrame(base64))>> ELSE <<>>,
   logged |-> <<>>]

\* mutant: the command is handed to the socket whatever its readyState
sendTextCommandUnchecked(r, txt) ==
  IF r.wsRef # 0
    THEN [sent |-> <<textMsg(r.wsRef, [type |-> "text_command", text |-> txt], 0)>>,
          logged |-> <<[type |-> "user", text |-> txt]>>]
    ELSE [sent |-> <<>>, logged |-> <<>>]

sendTextCommand(r, txt) ==
  IF currentOpen(r)
    THEN [sent |-> <<textMsg(r.wsRef, [type |-> "text_command", text |-> txt], 0)>>,
          logged |-> <<[type |-> "user", text |-> txt]>>]
    ELSE [sent |-> <<>>, logged |-> <<>>]

\* ------------------------------------------------------------------ screenshot capture
\* captureActiveTab up to its await (index.ts:106-112): the tab whose page is
\* captured, or NoTab when it returns null at once
captureActiveTab(m) ==
  IF m.activeTabId = NoTab THEN NoTab
  ELSE IF ~hasTab(m.tabs, m.activeTabId) THEN NoTab
  ELSE m.activeTabId

\* mutant: the interval's callback sends without looking at mainWindow
emitSnapshotUnchecked(m, buf) ==
  IF buf # <<>>
    THEN [m EXCEPT !.events = Append(@, [type |-> "screenshot-captured", data |-> toBase64(buf[1])])]
    ELSE m

\* `if (buf && mainWindow) mainWindow.webContents.send('screenshot-captured',
\* buf.toString('base64'))` (index.ts:262-264); buf: <<>> for null, <<bytes>> for a Buffer
emitSnapshot(m, buf) ==
  IF buf # <<>> /\ m.mainWindow
    THEN send(m, [type |-> "screenshot-captured", data |-> toBase64(buf[1])])
    ELSE m

\* ------------------------------------------------------------------ renderer: inbound messages
\* `action` messages of the agent (App.tsx:56-72)
AgentActions ==
  {[type |-> "action", action |-> "navigate", url |-> "example.com"],
   [type |-> "action", action |-> "new_tab"],
   [type |-> "action", action |-> "new_tab", url |-> "http://x"],
   [type |-> "action", action |-> "close_tab"],
   [type |-> "action", action |-> "scroll", direction |-> "down"],
   [type |-> "action", action |-> "type", text |-> "ab"]}

\* the `state` of `status` messages: the four AgentState values and one that is none of them
StatusInputs == {"idle", "listening", "thinking", "speaking", "paused"}

\* text payloads of the WebSocket: `json` is the value the text encodes, a
\* payload without it is text that is not JSON
InboundTexts ==
  {[garbage |-> "{oops"], [json |-> [text |-> "untyped"]],
   [json |-> [type |-> "transcript", text |-> "hello"]],
   [json |-> [type |-> "error", message |-> "boom"]]}
    \cup {[json |-> [type |-> "status", state |-> st]] : st \in StatusInputs}
    \cup {[json |-> a] : a \in AgentActions}

\* `JSON.parse(event.data)`: throws on text that is not JSON
JSONparse(payload) ==
  IF "json" \in DOMAIN payload THEN [threw |-> FALSE, msg |-> payload.json] ELSE [threw |-> TRUE]

\* `${msg.action} ${msg.url || msg.text || ''}`
actionText(msg) ==
  msg.action \o " " \o
    (IF "url" \in DOMAIN msg /\ msg.url # "" THEN msg.url
     ELSE IF "text" \in DOMAIN msg /\ msg.text # "" THEN msg.text ELSE "")

\* mutant: a status is ignored while the microphone is being listened to
onNoticeGuarded(a, payload) ==
  LET p == JSONparse(payload)
  IN IF p.threw THEN a
     ELSE IF "type" \notin DOMAIN p.msg THEN a
     ELSE CASE p.msg.type = "transcript" ->
                 [a EXCEPT !.logged = Append(@, [type |-> "agent", text |-> p.msg.text])]
            [] p.msg.type = "status" ->
                 IF a.agentState = "listening" THEN a ELSE [a EXCEPT !.agentState = p.msg.state]
            [] p.msg.type = "error" ->
                 [a EXCEPT !.logged = Append(@, [type |-> "error", text |-> p.msg.message])]
            [] OTHER -> a

\* mutant: a transcript is taken to mean that the agent is speaking
onNoticeInfersSpeaking(a, payload) ==
  LET p == JSONparse(payload)
  IN IF p.threw THEN a
     ELSE IF "type" \notin DOMAIN p.msg THEN a
     ELSE CASE p.msg.type = "transcript" ->
                 [a EXCEPT !.logged = Append(@, [type |-> "agent", text |-> p.msg.text]),
                           !.agentState = "speaking"]
            [] p.msg.type = "status" -> [a EXCEPT !.agentState = p.msg.state]
            [] p.msg.type = "error" ->
                 [a EXCEPT !.logged = Append(@, [type |-> "error", text |-> p.msg.message])]
            [] OTHER -> a

\* mutant: text that is not JSON is reported in the log
onNoticeReportsGarbage(a, payload) ==
  LET p == JSONparse(payload)
  IN IF p.threw THEN [a EXCEPT !.logged = Append(@, [type |-> "error", text |-> "Bad message"])]
     ELSE IF "type" \notin DOMAIN p.msg THEN a
     ELSE CASE p.msg.type = "transcript" ->
                 [a EXCEPT !.logged = Append(@, [type |-> "agent", text |-> p.msg.text])]
            [] p.msg.type = "status" -> [a EXCEPT !.agentState = p.msg.state]
            [] p.msg.type = "error" ->
                 [a EXCEPT !.logged = Append(@, [type |-> "error", text |-> p.msg.message])]
            [] OTHER -> a

\* the transcript / status / error branches and the catch of ws.onmessage
\* (App.tsx:53-55,82-91); a: [agentState, logged]
onNotice(a, payload) ==
  LET p == JSONparse(payload)
  IN IF p.threw THEN a
     ELSE IF "type" \notin DOMAIN p.msg THEN a
     ELSE CASE p.msg.type = "transcript" ->
                 [a EXCEPT !.logged = Append(@, [type |-> "agent", text |-> p.msg.text])]
            [] p.msg.type = "status" -> [a EXCEPT !.agentState = p.msg.state]
            [] p.msg.type = "error" ->
                 [a EXCEPT !.logged = Append(@, [type |-> "error", text |-> p.msg.message])]
            [] OTHER -> a

\* the `action` branch up to its await (App.tsx:59-72): the main-process
\* handler it invokes, whether it awaits one at all, and the result it builds.
\* closure: the activeTabId the socket's connectWS closed over.
bridgeCall(m, msg, closure) ==
  CASE msg.action = "navigate" ->
         [m |-> navigate(m, msg.url), awaited |-> TRUE,
          reply |-> [op |-> "navigate", result |-> [success |-> TRUE]],
          result |-> [status |-> "ok", navigated_to |-> msg.url]]
    [] msg.action = "new_tab" ->
         LET url == IF "url" \in DOMAIN msg THEN msg.url ELSE ""
         IN [m |-> createTab(m, url), awaited |-> TRUE,
             reply |-> [op |-> "create-tab", result |-> [id |-> m.nextTabId, url |-> url]],
             result |-> [status |-> "ok", tab_id |-> m.nextTabId]]
    [] msg.action = "close_tab" ->
         IF closure # NoTab
           THEN [m |-> closeTab(m, closure), awaited |-> TRUE,
                 reply |-> [op |-> "close-tab", result |-> [success |-> TRUE]],
                 result |-> [status |-> "ok"]]
           ELSE [m |-> m, awaited |-> FALSE, reply |-> reply, result |-> [status |-> "ok"]]
    [] OTHER ->
         \* executeAction(msg): msg.type is "action", which suspends in no evaluation
         LET r == executeAction(m, msg, FALSE)
         IN [m |-> [m EXCEPT !.wcCalls = r.calls], awaited |-> TRUE,
             reply |-> [op |-> "execute-action", result |-> r.result],
             result |-> r.result]

\* `JSON.stringify({ type: 'action_result', ...result })` handed to ws.send
\* `if (ws.readyState === WebSocket.OPEN)` (App.tsx:78-80); c is 0 once the
\* socket has closed
actionResult(cs, c, result, n) ==
  IF c # 0 /\ cs[c] = "OPEN"
    THEN <<textMsg(c, result @@ [type |-> "action_result"], n)>> ELSE <<>>

\* ------------------------------------------------------------------ actions
Commit(m) ==
  /\ tabs' = m.tabs
  /\ activeTabId' = m.activeTabId
  /\ nextTabId' = m.nextTabId
  /\ assigned' = m.assigned
  /\ events' = m.events
  /\ wcCalls' = m.wcCalls

CommitR(r) ==
  /\ conns' = r.conns
  /\ wsRef' = r.wsRef
  /\ wsConnected' = r.wsConnected
  /\ timers' = r.timers
  /\ logged' = r.logged

Init ==
  /\ mainWindow = FALSE
  /\ tabs = <<>>
  /\ activeTabId = NoTab
  /\ nextTabId = 1
  /\ assigned = <<>>
  /\ events = <<>>
  /\ wcCalls = <<>>
  /\ reply = [op |-> "none"]
  /\ pendingEval = {}
  /\ mounted = FALSE
  /\ uiTabs = <<>>
  /\ uiActiveTabId = NoTab
  /\ effectDep = NoTab
  /\ conns = NoConns
  /\ wsRef = 0
  /\ wsConnected = FALSE
  /\ timers = 0
  /\ logged = <<>>
  /\ backendUp = TRUE
  /\ agentState = "idle"
  /\ micPending = 0
  /\ capturing = 0
  /\ streamRef = FALSE
  /\ sent = <<>>
  /\ inflight = <<>>
  /\ actionSeq = 0
  /\ discarded = FALSE
  /\ closureTab = [c \in DOMAIN NoConns |-> NoTab]
  /\ timerDeps = <<>>
  /\ screenshotInterval = 0
  /\ pendingCapture = {}
  /\ skipped = FALSE
  /\ notified = [id |-> NoTab, live |-> FALSE]

\* app 'ready' / 'activate': createWindow(), which arms the screenshot interval
\* and opens the default tab
CreateWindow ==
  /\ ~mainWindow
  /\ mainWindow' = TRUE
  /\ screenshotInterval' = screenshotInterval + 1
  /\ Commit(createTab([M EXCEPT !.mainWindow = TRUE], ""))
  /\ UNCHANGED <<reply, pendingEval, backendUp, pendingCapture, skipped>>
  /\ UNCHANGED <<uiVars, wsVars, voiceVars, bridgeVars>>
  /\ UNCHANGED notified

\* mainWindow.on('closed'): the interval is cleared; the window's contentView and
\* its renderer, with the renderer's sockets and timers, go with it. A capture
\* in flight is not cancelled: it is marked as begun for a window that is gone.
WindowClosed ==
  /\ mainWindow
  /\ mainWindow' = FALSE
  /\ screenshotInterval' = IF screenshotInterval > 0 THEN screenshotInterval - 1 ELSE 0
  /\ pendingCapture' = {[p EXCEPT !.stale = TRUE] : p \in pendingCapture}
  /\ tabs' = [i \in DOMAIN tabs |-> [tabs[i] EXCEPT !.attached = FALSE]]
  /\ events' = <<>>
  /\ mounted' = FALSE
  /\ uiTabs' = <<>>
  /\ uiActiveTabId' = NoTab
  /\ effectDep' = NoTab
  /\ conns' = NoConns
  /\ wsRef' = 0
  /\ wsConnected' = FALSE
  /\ timers' = 0
  /\ logged' = <<>>
  /\ agentState' = "idle"
  /\ micPending' = 0
  /\ capturing' = 0
  /\ streamRef' = FALSE
  /\ sent' = <<>>
  /\ inflight' = <<>>
  /\ discarded' = FALSE
  /\ closureTab' = [c \in DOMAIN NoConns |-> NoTab]
  /\ timerDeps' = <<>>
  /\ UNCHANGED <<activeTabId, nextTabId, assigned, wcCalls, reply, pendingEval, backendUp, actionSeq, skipped>>
  /\ UNCHANGED notified

\* the renderer's ipcRenderer.invoke calls reach the main process only from a mounted App
IpcCreateTab(url) ==
  /\ mounted
  /\ Commit(createTab(M, url))
  /\ reply' = [op |-> "create-tab", result |-> [id |-> nextTabId, url |-> url]]
  /\ UNCHANGED <<mainWindow, pendingEval, backendUp>>
  /\ UNCHANGED <<uiVars, wsVars, voiceVars, bridgeVars>>
  /\ UNCHANGED captureVars
  /\ UNCHANGED notified

IpcSwitchTab(id) ==
  /\ mounted
  /\ Commit(switchToTab(M, id))
  /\ reply' = [op |-> "switch-tab", result |-> [success |-> TRUE]]
  /\ UNCHANGED <<mainWindow, pendingEval, backendUp>>
  /\ UNCHANGED <<uiVars, wsVars, voiceVars, bridgeVars>>
  /\ UNCHANGED captureVars
  /\ UNCHANGED notified

IpcCloseTab(id) ==
  /\ mounted
  /\ Commit(closeTab(M, id))
  /\ reply' = [op |-> "close-tab", result |-> [success |-> TRUE]]
  /\ UNCHANGED <<mainWindow, pendingEval, backendUp>>
  /\ UNCHANGED <<uiVars, wsVars, voiceVars, bridgeVars>>
  /\ UNCHANGED captureVars
  /\ UNCHANGED notified

IpcNavigate(url) ==
  /\ mounted
  /\ Commit(navigate(M, url))
  /\ reply' = [op |-> "navigate", result |-> [success |-> TRUE]]
  /\ UNCHANGED <<mainWindow, pendingEval, backendUp>>
  /\ UNCHANGED <<uiVars, wsVars, voiceVars, bridgeVars>>
  /\ UNCHANGED captureVars
  /\ UNCHANGED notified

IpcGetTabs ==
  /\ mounted
  /\ reply' = [op |-> "get-tabs", list |-> getTabs(M)]
  /\ wcCalls' = <<>>
  /\ UNCHANGED <<mainWindow, tabs, activeTabId, nextTabId, assigned, events, pendingEval, backendUp>>
  /\ UNCHANGED <<uiVars, wsVars, voiceVars, bridgeVars>>
  /\ UNCHANGED captureVars
  /\ UNCHANGED notified

IpcExecuteAction(action, can) ==
  /\ mounted
  /\ LET r == executeAction(M, action, can)
     IN /\ wcCalls' = r.calls
        /\ IF r.await = "none"
             THEN /\ reply' = [op |-> "execute-action", result |-> r.result]
                  /\ UNCHANGED pendingEval
             ELSE /\ pendingEval' = pendingEval \cup {[tab |-> activeTabId, result |-> r.result]}
                  /\ reply' = [op |-> "execute-action", pending |-> TRUE]
  /\ UNCHANGED <<mainWindow, tabs, activeTabId, nextTabId, assigned, events, backendUp>>
  /\ UNCHANGED <<uiVars, wsVars, voiceVars, bridgeVars>>
  /\ UNCHANGED captureVars
  /\ UNCHANGED notified

\* wc.executeJavaScript settles: it resolves only on a live tab; a closed tab's
\* webContents, or a script that throws, rejects and the handler's promise with it
EvalSettles(p, ok) ==
  /\ p \in pendingEval
  /\ pendingEval' = pendingEval \ {p}
  /\ reply' = IF ok /\ hasTab(tabs, p.tab)
                THEN [op |-> "execute-action", result |-> p.result]
                ELSE [op |-> "execute-action", rejected |-> TRUE]
  /\ UNCHANGED <<mainWindow, tabs, activeTabId, nextTabId, assigned, events, wcCalls, backendUp>>
  /\ UNCHANGED <<uiVars, wsVars, voiceVars, bridgeVars>>
  /\ UNCHANGED captureVars
  /\ UNCHANGED notified

\* a webContents the main process has created, of a tab that is open or
\* closed, reports a finished navigation or a new title
DidNavigate(id, navUrl) ==
  /\ \E j \in DOMAIN assigned : assigned[j] = id
  /\ Commit(didNavigate(M, id, navUrl))
  /\ notified' = [id |-> id, live |-> hasTab(tabs, id)]
  /\ UNCHANGED <<mainWindow, reply, pendingEval, backendUp>>
  /\ UNCHANGED <<uiVars, wsVars, voiceVars, bridgeVars, captureVars>>

PageTitleUpdated(id, title) ==
  /\ \E j \in DOMAIN assigned : assigned[j] = id
  /\ Commit(pageTitleUpdated(M, id, title))
  /\ notified' = [id |-> id, live |-> hasTab(tabs, id)]
  /\ UNCHANGED <<mainWindow, reply, pendingEval, backendUp>>
  /\ UNCHANGED <<uiVars, wsVars, voiceVars, bridgeVars, captureVars>>

\* the interval fires (index.ts:260-261): captureActiveTab returns null at once,
\* and nothing is sent, or suspends in capturePage of the active tab
CaptureTick ==
  /\ screenshotInterval > 0
  /\ LET id == captureActiveTab(M)
     IN IF id = NoTab
          THEN /\ wcCalls' = <<>>
               /\ skipped' = TRUE
               /\ UNCHANGED pendingCapture
          ELSE /\ wcCalls' = <<[tab |-> id, call |-> "capturePage"]>>
               /\ pendingCapture' = pendingCapture \cup {[tab |-> id, stale |-> FALSE]}
               /\ UNCHANGED skipped
  /\ UNCHANGED <<mainWindow, tabs, activeTabId, nextTabId, assigned, events, reply, pendingEval>>
  /\ UNCHANGED <<uiVars, wsVars, backendUp, voiceVars, bridgeVars, screenshotInterval>>
  /\ UNCHANGED notified

\* mutant: a capture that fails stops the interval
CaptureSettlesFatal(p, image) ==
  /\ p \in pendingCapture
  /\ pendingCapture' = pendingCapture \ {p}
  /\ Commit(emitSnapshot(M, IF hasTab(tabs, p.tab) THEN image ELSE <<>>))
  /\ skipped' = (events' = events)
  /\ screenshotInterval' = IF events' = events THEN 0 ELSE screenshotInterval
  /\ UNCHANGED <<mainWindow, reply, pendingEval>>
  /\ UNCHANGED <<uiVars, wsVars, backendUp, voiceVars, bridgeVars>>
  /\ UNCHANGED notified

\* capturePage settles (index.ts:112-117, 262-264): it resolves only on a live
\* tab, and then resize and toJPEG give the Buffer unless they throw; every
\* failure is caught and makes buf null. image: <<>> for a failure, <<bytes>>
\* for the JPEG
CaptureSettles(p, image) ==
  /\ p \in pendingCapture
  /\ pendingCapture' = pendingCapture \ {p}
  /\ Commit(emitSnapshot(M, IF hasTab(tabs, p.tab) THEN image ELSE <<>>))
  /\ skipped' = (events' = events)
  /\ UNCHANGED <<mainWindow, reply, pendingEval>>
  /\ UNCHANGED <<uiVars, wsVars, backendUp, voiceVars, bridgeVars, screenshotInterval>>
  /\ UNCHANGED notified

\* App's first render and its effects (App.tsx:165-196): the tab listeners are
\* registered, so what was sent to the window before found no listener, and
\* connectWS() runs
Mount ==
  /\ mainWindow /\ ~mounted
  /\ mounted' = TRUE
  /\ events' = <<>>
  /\ effectDep' = uiActiveTabId
  /\ CommitR(connectWS(R))
  /\ closureTab' = [closureTab EXCEPT ![connectWS(R).wsRef] = uiActiveTabId]
  /\ sent' = <<>>
  /\ UNCHANGED <<uiTabs, uiActiveTabId, backendUp, voiceVars, inflight, actionSeq, discarded, timerDeps>>
  /\ UNCHANGED <<mainWindow, tabs, activeTabId, nextTabId, assigned, wcCalls, reply, pendingEval>>
  /\ UNCHANGED captureVars
  /\ UNCHANGED notified

\* the renderer receives the oldest undelivered message: a tab event, or a
\* screenshot, which its listener hands to sendScreenshot (App.tsx:185-187)
DeliverEvent ==
  /\ mounted /\ events # <<>>
  /\ LET u == onTabEvent([uiTabs |-> uiTabs, uiActiveTabId |-> uiActiveTabId], Head(events))
     IN /\ uiTabs' = u.uiTabs
        /\ uiActiveTabId' = u.uiActiveTabId
  /\ events' = Tail(events)
  /\ logged' = <<>>
  /\ sent' = IF Head(events).type = "screenshot-captured"
              THEN sendScreenshot(R, Head(events).data).sent ELSE <<>>
  /\ UNCHANGED <<mounted, effectDep, conns, wsRef, wsConnected, timers, backendUp>>
  /\ UNCHANGED <<voiceVars, inflight, actionSeq, discarded, closureTab, timerDeps>>
  /\ UNCHANGED <<mainWindow, tabs, activeTabId, nextTabId, assigned, wcCalls, reply, pendingEval>>
  /\ UNCHANGED captureVars
  /\ UNCHANGED notified

\* useEffect(..., [connectWS]) (App.tsx:191-196): connectWS is a new function
\* whenever activeTabId changed (App.tsx:105), so the effect's cleanup closes
\* wsRef.current and the effect runs connectWS() again
EffectRerun ==
  /\ mounted /\ uiActiveTabId # effectDep
  /\ \E c \in DOMAIN conns : closeCurrent(R).conns[c] = "CLOSED"
  /\ effectDep' = uiActiveTabId
  /\ CommitR(connectWS(closeCurrent(R)))
  /\ closureTab' = [closureTab EXCEPT ![connectWS(closeCurrent(R)).wsRef] = uiActiveTabId]
  /\ sent' = <<>>
  /\ UNCHANGED <<mounted, uiTabs, uiActiveTabId, backendUp, voiceVars, inflight, actionSeq, discarded, timerDeps>>
  /\ UNCHANGED mainVars
  /\ UNCHANGED captureVars
  /\ UNCHANGED notified

\* ws.onopen
WsOpen(c) ==
  /\ conns[c] = "CONNECTING" /\ backendUp
  /\ CommitR(onopen([R EXCEPT !.conns[c] = "OPEN"]))
  /\ sent' = <<>>
  /\ UNCHANGED <<uiVars, effectDep, backendUp, voiceVars, inflight, actionSeq, discarded, closureTab, timerDeps>>
  /\ UNCHANGED mainVars
  /\ UNCHANGED captureVars
  /\ UNCHANGED notified

\* ws.onerror: the connection could not be made; the close event follows
WsError(c) ==
  /\ conns[c] = "CONNECTING" /\ ~backendUp
  /\ CommitR(onerror([R EXCEPT !.conns[c] = "CLOSING"]))
  /\ sent' = <<>>
  /\ UNCHANGED <<uiVars, effectDep, backendUp, voiceVars, inflight, actionSeq, discarded, closureTab, timerDeps>>
  /\ UNCHANGED mainVars
  /\ UNCHANGED captureVars
  /\ UNCHANGED notified

\* the backend or the network drops an open connection; the close event follows
WsDrop(c) ==
  /\ conns[c] = "OPEN"
  /\ conns' = [conns EXCEPT ![c] = "CLOSING"]
  /\ UNCHANGED <<uiVars, effectDep, wsRef, wsConnected, timers, logged, backendUp>>
  /\ UNCHANGED <<voiceVars, bridgeVars>>
  /\ UNCHANGED mainVars
  /\ UNCHANGED captureVars
  /\ UNCHANGED notified

\* ws.onclose
WsClose(c) ==
  /\ conns[c] = "CLOSING"
  /\ CommitR(onclose([R EXCEPT !.conns[c] = "CLOSED"]))
  /\ timerDeps' = Append(timerDeps, closureTab[c])
  /\ closureTab' = [closureTab EXCEPT ![c] = NoTab]
  /\ inflight' = [i \in DOMAIN inflight |->
                    IF inflight[i].conn = c THEN [inflight[i] EXCEPT !.conn = 0] ELSE inflight[i]]
  /\ sent' = <<>>
  /\ UNCHANGED <<uiVars, effectDep, backendUp, voiceVars, actionSeq, discarded>>
  /\ UNCHANGED mainVars
  /\ UNCHANGED captureVars
  /\ UNCHANGED notified

\* a setTimeout(connectWS, 3000) fires
TimerFire ==
  /\ timers > 0
  /\ \E c \in DOMAIN conns : conns[c] = "CLOSED"
  /\ CommitR(connectWS([R EXCEPT !.timers = @ - 1]))
  /\ closureTab' = [closureTab EXCEPT ![connectWS(R).wsRef] = Head(timerDeps)]
  /\ timerDeps' = Tail(timerDeps)
  /\ sent' = <<>>
  /\ UNCHANGED <<uiVars, effectDep, backendUp, voiceVars, inflight, actionSeq, discarded>>
  /\ UNCHANGED mainVars
  /\ UNCHANGED captureVars
  /\ UNCHANGED notified

BackendToggle ==
  /\ backendUp' = ~backendUp
  /\ UNCHANGED <<mainVars, uiVars, wsVars, voiceVars, bridgeVars>>
  /\ UNCHANGED captureVars
  /\ UNCHANGED notified

\* ws.onmessage with a text payload (App.tsx:53-91). An `action` invokes its
\* main-process handler and suspends until the handler's answer is back.
WsMessage(c, payload) ==
  /\ conns[c] = "OPEN"
  /\ LET p == JSONparse(payload)
     IN IF ~p.threw /\ "type" \in DOMAIN p.msg /\ p.msg.type = "action"
          THEN LET n == actionSeq + 1
                   call == bridgeCall(M, p.msg, closureTab[c])
               IN /\ actionSeq' = n
                  /\ logged' = <<[type |-> "action", text |-> actionText(p.msg)]>>
                  /\ IF call.awaited
                       THEN /\ Commit(call.m)
                            /\ reply' = call.reply
                            /\ inflight' = Append(inflight, [n |-> n, conn |-> c, result |-> call.result])
                            /\ sent' = <<>>
                       ELSE /\ sent' = actionResult(conns, c, call.result, n)
                            /\ UNCHANGED <<tabs, activeTabId, nextTabId, assigned, events, wcCalls,
                                           reply, inflight>>
                  /\ discarded' = FALSE
                  /\ UNCHANGED agentState
          ELSE LET a == onNotice([agentState |-> agentState, logged |-> <<>>], payload)
               IN /\ agentState' = a.agentState
                  /\ logged' = a.logged
                  /\ sent' = <<>>
                  /\ discarded' = p.threw
                  /\ UNCHANGED <<tabs, activeTabId, nextTabId, assigned, events, wcCalls, reply,
                                 inflight, actionSeq>>
  /\ UNCHANGED <<mainWindow, pendingEval, uiVars, effectDep, conns, wsRef, wsConnected, timers>>
  /\ UNCHANGED <<backendUp, micPending, capturing, streamRef, closureTab, timerDeps>>
  /\ UNCHANGED captureVars
  /\ UNCHANGED notified

\* ws.onmessage with a Blob (App.tsx:47-51): the audio is played
WsBinary(c) ==
  /\ conns[c] = "OPEN"
  /\ logged' = <<>>
  /\ sent' = <<>>
  /\ UNCHANGED <<mainVars, uiVars, effectDep, conns, wsRef, wsConnected, timers, backendUp>>
  /\ UNCHANGED <<voiceVars, inflight, actionSeq, discarded, closureTab, timerDeps>>
  /\ UNCHANGED captureVars
  /\ UNCHANGED notified

\* the oldest suspended ws.onmessage resumes with its handler's answer and
\* sends the action_result (App.tsx:77-80)
IpcReturns ==
  /\ inflight # <<>>
  /\ sent' = actionResult(conns, Head(inflight).conn, Head(inflight).result, Head(inflight).n)
  /\ inflight' = Tail(inflight)
  /\ logged' = <<>>
  /\ UNCHANGED <<mainVars, uiVars, effectDep, conns, wsRef, wsConnected, timers, backendUp>>
  /\ UNCHANGED <<voiceVars, actionSeq, discarded, closureTab, timerDeps>>
  /\ UNCHANGED captureVars
  /\ UNCHANGED notified

\* VoiceOrb's handleOrbClick (part_001:68-74) with stopListening (56-66) and
\* the start of startListening (25-29)
OrbClick ==
  /\ mounted
  /\ IF agentState = "listening"
       THEN /\ capturing' = IF streamRef THEN capturing - 1 ELSE capturing
            /\ streamRef' = FALSE
            /\ agentState' = "idle"
            /\ UNCHANGED micPending
       ELSE IF agentState = "idle"
         THEN /\ micPending' = micPending + 1
              /\ UNCHANGED <<agentState, capturing, streamRef>>
         ELSE UNCHANGED <<agentState, micPending, capturing, streamRef>>
  /\ logged' = <<>>
  /\ sent' = <<>>
  /\ UNCHANGED <<mainVars, uiVars, effectDep, conns, wsRef, wsConnected, timers, backendUp>>
  /\ UNCHANGED <<inflight, actionSeq, discarded, closureTab, timerDeps>>
  /\ UNCHANGED captureVars
  /\ UNCHANGED notified

\* mutant: onStartListening runs whether or not a stream was obtained
MicSettlesAlways(ok) ==
  /\ micPending > 0
  /\ micPending' = micPending - 1
  /\ IF ok
       THEN streamRef' = TRUE /\ capturing' = capturing + 1
       ELSE UNCHANGED <<streamRef, capturing>>
  /\ agentState' = "listening"
  /\ logged' = <<[type |-> "agent", text |-> "Listening..."]>>
  /\ sent' = <<>>
  /\ UNCHANGED <<mainVars, uiVars, effectDep, conns, wsRef, wsConnected, timers, backendUp>>
  /\ UNCHANGED <<inflight, actionSeq, discarded, closureTab, timerDeps>>
  /\ UNCHANGED captureVars
  /\ UNCHANGED notified

\* getUserMedia settles (part_001:27-53): with a stream, the processor is
\* connected and onStartListening (App.tsx:230-233) runs; without, the catch
MicSettles(ok) ==
  /\ micPending > 0
  /\ micPending' = micPending - 1
  /\ IF ok
       THEN /\ streamRef' = TRUE
            /\ capturing' = capturing + 1
            /\ agentState' = "listening"
            /\ logged' = <<[type |-> "agent", text |-> "Listening..."]>>
       ELSE /\ logged' = <<>>
            /\ UNCHANGED <<streamRef, capturing, agentState>>
  /\ sent' = <<>>
  /\ UNCHANGED <<mainVars, uiVars, effectDep, conns, wsRef, wsConnected, timers, backendUp>>
  /\ UNCHANGED <<inflight, actionSeq, discarded, closureTab, timerDeps>>
  /\ UNCHANGED captureVars
  /\ UNCHANGED notified

\* processor.onaudioprocess (part_001:39-46): a buffer of samples is handed to sendAudio
AudioProcess(pcmData) ==
  /\ capturing > 0
  /\ sent' = sendAudio(R, pcmData).sent
  /\ logged' = sendAudio(R, pcmData).logged
  /\ UNCHANGED <<mainVars, uiVars, effectDep, conns, wsRef, wsConnected, timers, backendUp>>
  /\ UNCHANGED <<voiceVars, inflight, actionSeq, discarded, closureTab, timerDeps>>
  /\ UNCHANGED captureVars
  /\ UNCHANGED notified

\* the 'screenshot-captured' listener (App.tsx:185-187)
OnScreenshotCaptured(base64) ==
  /\ mounted
  /\ sent' = sendScreenshot(R, base64).sent
  /\ logged' = sendScreenshot(R, base64).logged
  /\ UNCHANGED <<mainVars, uiVars, effectDep, conns, wsRef, wsConnected, timers, backendUp>>
  /\ UNCHANGED <<voiceVars, inflight, actionSeq, discarded, closureTab, timerDeps>>
  /\ UNCHANGED captureVars
  /\ UNCHANGED notified

\* VoiceOrb's handleTextSubmit (part_001:76-82) with a non-blank input
SubmitText(txt) ==
  /\ mounted
  /\ sent' = sendTextCommand(R, txt).sent
  /\ logged' = sendTextCommand(R, txt).logged
  /\ UNCHANGED <<mainVars, uiVars, effectDep, conns, wsRef, wsConnected, timers, backendUp>>
  /\ UNCHANGED <<voiceVars, inflight, actionSeq, discarded, closureTab, timerDeps>>
  /\ UNCHANGED captureVars
  /\ UNCHANGED notified

vars == <<mainVars, uiVars, wsVars, backendUp, voiceVars, bridgeVars, captureVars, notified>>

\* bounds, stated on the step
Within(maxTabs, maxEvents) == nextTabId' <= maxTabs + 1 /\ Len(events') <= maxEvents
Room == Cardinality(live(conns')) + timers' <= MaxConns

\* ------------------------------------------------------------------ Spec: the tab manager
\* every caller of the tab handlers, with any argument
Next ==
  \/ CreateWindow /\ Within(MaxTabs, MaxEvents)
  \/ WindowClosed
  \/ Mount
  \/ DeliverEvent
  \/ \E url \in Locations : IpcCreateTab(url) /\ Within(MaxTabs, MaxEvents)
  \/ \E id \in 1..(MaxTabs + 1) : IpcSwitchTab(id) /\ Within(MaxTabs, MaxEvents)
  \/ \E id \in 1..(MaxTabs + 1) : IpcCloseTab(id) /\ Within(MaxTabs, MaxEvents)
  \/ \E url \in Locations : IpcNavigate(url) /\ Within(MaxTabs, MaxEvents)
  \/ IpcGetTabs

Spec == Init /\ [][Next]_vars

\* ------------------------------------------------------------------ ExecSpec: the action executor
ExecNext ==
  \/ CreateWindow /\ Within(ExecMaxTabs, ExecMaxEvents)
  \/ Mount
  \/ DeliverEvent
  \/ IpcCreateTab("") /\ Within(ExecMaxTabs, ExecMaxEvents)
  \/ \E id \in 1..ExecMaxTabs : IpcCloseTab(id) /\ Within(ExecMaxTabs, ExecMaxEvents)
  \/ \E action \in ActionInputs, can \in BOOLEAN :
       IpcExecuteAction(action, can) /\ Cardinality(pendingEval') <= MaxPending
  \/ \E p \in pendingEval, ok \in BOOLEAN : EvalSettles(p, ok)

ExecSpec == Init /\ [][ExecNext]_vars

\* ------------------------------------------------------------------ TransportSpec: the WebSocket
\* the tab handlers as TabBar calls them (App.tsx:210-212)
TransportNext ==
  \/ CreateWindow /\ Within(ConnMaxTabs, ConnMaxEvents)
  \/ Mount
  \/ DeliverEvent
  \/ IpcCreateTab("") /\ Within(ConnMaxTabs, ConnMaxEvents)
  \/ \E i \in DOMAIN uiTabs : IpcSwitchTab(uiTabs[i].id) /\ Within(ConnMaxTabs, ConnMaxEvents)
  \/ \E i \in DOMAIN uiTabs : IpcCloseTab(uiTabs[i].id) /\ Within(ConnMaxTabs, ConnMaxEvents)
  \/ EffectRerun /\ Room
  \/ \E c \in DOMAIN conns : WsOpen(c)
  \/ \E c \in DOMAIN conns : WsError(c)
  \/ \E c \in DOMAIN conns : WsDrop(c)
  \/ \E c \in DOMAIN conns : WsClose(c)
  \/ TimerFire
  \/ BackendToggle

\* timers fire, and open, error and close events are delivered, once they are due
TransportSpec ==
  /\ Init /\ [][TransportNext]_vars
  /\ WF_vars(TimerFire)
  /\ \A c \in DOMAIN NoConns : WF_vars(WsOpen(c)) /\ WF_vars(WsError(c)) /\ WF_vars(WsClose(c))

\* ------------------------------------------------------------------ BridgeSpec: the WebSocket's traffic
\* one buffer of samples, one image and one typed command
Samples == <<0, 128, 255, 127>>
Jpeg == <<255, 216, 255>>

\* the agent's actions, text that is not JSON and a transcript
BridgeTexts ==
  {p \in InboundTexts :
     "json" \in DOMAIN p /\ "type" \in DOMAIN p.json => p.json.type \in {"action", "transcript"}}

BridgeNext ==
  \/ CreateWindow /\ Within(BridgeMaxTabs, BridgeMaxEvents)
  \/ Mount
  \/ DeliverEvent
  \/ EffectRerun /\ Room
  \/ \E c \in DOMAIN conns : WsOpen(c)
  \/ \E c \in DOMAIN conns : WsClose(c)
  \/ TimerFire
  \/ \E c \in DOMAIN conns, payload \in BridgeTexts :
       WsMessage(c, payload) /\ Within(BridgeMaxTabs, BridgeMaxEvents) /\ actionSeq' <= MaxActions
  \/ \E c \in DOMAIN conns : WsBinary(c)
  \/ IpcReturns
  \/ OrbClick /\ micPending' + capturing' <= 1
  \/ \E ok \in BOOLEAN : MicSettles(ok)
  \/ AudioProcess(Samples)
  \/ OnScreenshotCaptured(toBase64(Jpeg))
  \/ SubmitText("go")

BridgeSpec == Init /\ [][BridgeNext]_vars

\* ------------------------------------------------------------------ VoiceSpec: the agent state
\* every kind of inbound text; of the actions, those that open no tab
VoiceTexts ==
  {p \in InboundTexts :
     "json" \in DOMAIN p /\ "action" \in DOMAIN p.json => p.json.action \in {"close_tab", "scroll"}}

VoiceNext ==
  \/ CreateWindow /\ Within(VoiceMaxTabs, VoiceMaxEvents)
  \/ Mount
  \/ DeliverEvent
  \/ IpcCreateTab("") /\ Within(VoiceMaxTabs, VoiceMaxEvents)
  \/ EffectRerun /\ Room
  \/ \E c \in DOMAIN conns : WsOpen(c)
  \/ \E c \in DOMAIN conns : WsClose(c)
  \/ TimerFire
  \/ \E c \in DOMAIN conns, payload \in VoiceTexts :
       WsMessage(c, payload) /\ actionSeq' <= VoiceMaxActions
  \/ \E c \in DOMAIN conns : WsBinary(c)
  \/ IpcReturns
  \/ OrbClick /\ micPending' + capturing' <= MaxMic
  \/ \E ok \in BOOLEAN : MicSettles(ok)
  \/ AudioProcess(Samples)
  \/ OnScreenshotCaptured(toBase64(Jpeg))
  \/ SubmitText("go")

VoiceSpec == Init /\ [][VoiceNext]_vars

\* ------------------------------------------------------------------ FrameSpec: the binary frames
\* byte values of payloads, and the payloads of up to MaxPayload bytes
PayloadBytes == {0, 77, 255}
Payloads == UNION {[1..n -> PayloadBytes] : n \in 0..MaxPayload}

\* the senders with every payload, on a socket that is open or not
FrameNext ==
  \/ CreateWindow
  \/ Mount
  \/ \E c \in DOMAIN conns : WsOpen(c)
  \/ OrbClick /\ micPending' + capturing' <= 1
  \/ \E ok \in BOOLEAN : MicSettles(ok)
  \/ \E pcmData \in Payloads : AudioProcess(pcmData)
  \/ \E jpeg \in Payloads : OnScreenshotCaptured(toBase64(jpeg))

FrameSpec == Init /\ [][FrameNext]_vars

\* ------------------------------------------------------------------ CaptureSpec: the screenshot loop
\* windows closed and created again, tabs opened, switched and closed while
\* captures are in flight; a capture fails or gives the image
CaptureNext ==
  \/ CreateWindow /\ Within(CaptureMaxTabs, CaptureMaxEvents)
  \/ WindowClosed
  \/ Mount
  \/ DeliverEvent
  \/ \E c \in DOMAIN conns : WsOpen(c)
  \/ IpcCreateTab("") /\ Within(CaptureMaxTabs, CaptureMaxEvents)
  \/ \E id \in 1..CaptureMaxTabs : IpcSwitchTab(id) /\ Within(CaptureMaxTabs, CaptureMaxEvents)
  \/ \E id \in 1..CaptureMaxTabs : IpcCloseTab(id) /\ Within(CaptureMaxTabs, CaptureMaxEvents)
  \/ CaptureTick /\ Cardinality(pendingCapture') <= MaxCaptures
  \/ \E p \in pendingCapture, image \in {<<>>, <<Jpeg>>} :
       CaptureSettles(p, image) /\ Within(CaptureMaxTabs, CaptureMaxEvents)

CaptureSpec == Init /\ [][CaptureNext]_vars

\* ------------------------------------------------------------------ NotifySpec: page notifications
\* urls and titles the pages report
NavUrls == {"https://example.com/"}
Titles == {"Example"}

\* tabs opened and closed and the window closed and created again, while the
\* pages of open and of closed tabs report navigations and titles
NotifyNext ==
  \/ CreateWindow /\ Within(NotifyMaxTabs, NotifyMaxEvents)
  \/ WindowClosed
  \/ Mount
  \/ DeliverEvent
  \/ \E url \in {"", "example.com"} : IpcCreateTab(url) /\ Within(NotifyMaxTabs, NotifyMaxEvents)
  \/ \E id \in 1..NotifyMaxTabs : IpcCloseTab(id) /\ Within(NotifyMaxTabs, NotifyMaxEvents)
  \/ \E id \in 1..NotifyMaxTabs, navUrl \in NavUrls :
       DidNavigate(id, navUrl) /\ Within(NotifyMaxTabs, NotifyMaxEvents)
  \/ \E id \in 1..NotifyMaxTabs, title \in Titles :
       PageTitleUpdated(id, title) /\ Within(NotifyMaxTabs, NotifyMaxEvents)

NotifySpec == Init /\ [][NotifyNext]_vars

\* ================================================================== claims
\* ids of the tabs get-tabs reports as active
activeReported(list) == {i \in DOMAIN list : list[i].active}

maxOf(S) == CHOOSE x \in S : \A y \in S : y <= x

idsOf(ts) == {ts[i].id : i \in DOMAIN ts}

\* C1: whatever was opened, activated and closed, get-tabs reports at most one
\* tab as active, and once no tab remains none is active (activeTabId is null).
C1_SingleActive ==
  /\ Cardinality(activeReported(getTabs(M))) <= 1
  /\ reply.op = "get-tabs" => Cardinality(activeReported(reply.list)) <= 1
  /\ tabs = <<>> => activeTabId = NoTab

\* the last remaining tab has just been closed
C1_Witness ==
  /\ mainWindow /\ tabs = <<>> /\ Len(assigned) >= 2
  /\ reply.op = "close-tab"
  /\ events # <<>> /\ events[Len(events)].type = "tab-closed"

\* C2: close-tab of the active tab activates the greatest id that remains, or
\* none when nothing remains; close-tab of another tab leaves activeTabId alone.
C2_ActivationFallback ==
  [][\A id \in 1..(MaxTabs + 1) :
       IpcCloseTab(id) /\ hasTab(tabs, id) =>
         IF activeTabId # id THEN activeTabId' = activeTabId
         ELSE IF tabs' = <<>> THEN activeTabId' = NoTab
         ELSE activeTabId' = maxOf(idsOf(tabs'))]_vars

\* tabs 1, 2, 3 with 3 active: closing 3 switched to 2
C2_Witness ==
  /\ tabKeys(tabs) = <<1, 2>> /\ activeTabId = 2
  /\ events = <<[type |-> "tab-switched", id |-> 2], [type |-> "tab-closed", id |-> 3]>>

\* C3: the ids createTab assigns are strictly increasing, so none is assigned
\* twice, and every tab's id is one of them.
C3_IdMonotonic ==
  /\ \A i, j \in DOMAIN assigned : i < j => assigned[i] < assigned[j]
  /\ \A i \in DOMAIN tabs : \E j \in DOMAIN assigned : assigned[j] = tabs[i].id
  /\ \A i, j \in DOMAIN tabs : i < j => tabs[i].id < tabs[j].id

\* tab 3 was opened after tab 2 had been closed
C3_Witness ==
  /\ assigned = <<1, 2, 3>> /\ tabKeys(tabs) = <<1, 3>>
  /\ events = <<[type |-> "tab-switched", id |-> 3],
                [type |-> "tab-created", id |-> 3, url |-> "", title |-> "New Tab"]>>

\* C4: execute-action with no active tab returns the same failure for every
\* command, makes no call on any webContents and suspends in no evaluation.
C4_NoActivePrecondition ==
  [][\A action \in ActionInputs, can \in BOOLEAN :
       IpcExecuteAction(action, can) /\ activeTabId = NoTab =>
         /\ reply' = [op |-> "execute-action",
                      result |-> [success |-> FALSE, error |-> "No active tab"]]
         /\ wcCalls' = <<>>
         /\ pendingEval' = pendingEval]_vars

C4_Witness ==
  /\ mounted /\ activeTabId = NoTab /\ tabs = <<>>
  /\ reply = [op |-> "execute-action", result |-> [success |-> FALSE, error |-> "No active tab"]]

\* what createTab(url) leaves behind, as a step: one more tab, with the next id,
\* the url and the title "New Tab"; it is the active and the only visible one;
\* the tabs there were are kept, in order; tab-switched and tab-created are sent
Opened(url) ==
  LET id == nextTabId
      new == tabs'[Len(tabs')]
  IN /\ Len(tabs') = Len(tabs) + 1
     /\ \A j \in DOMAIN assigned : assigned[j] # id
     /\ new.id = id /\ new.url = url /\ new.title = "New Tab" /\ new.visible
     /\ activeTabId' = id
     /\ activeReported(getTabs([tabs |-> tabs', activeTabId |-> activeTabId'])) = {Len(tabs')}
     /\ \A i \in DOMAIN tabs :
          /\ tabs'[i].id = tabs[i].id /\ tabs'[i].url = tabs[i].url
          /\ ~tabs'[i].visible
     /\ nextTabId' = nextTabId + 1
     /\ events' = events \o <<[type |-> "tab-switched", id |-> id],
                              [type |-> "tab-created", id |-> id, url |-> url, title |-> "New Tab"]>>

\* C5: create-tab answers with the new tab's id for every url, the empty one
\* included, and leaves the state described by Opened.
C5_OpenNeverFails ==
  [][/\ \A url \in Locations :
          IpcCreateTab(url) =>
            Opened(url) /\ reply'.result = [id |-> nextTabId, url |-> url]
     /\ CreateWindow => Opened("")]_vars

\* a second tab was opened with the empty url; the first is still there
C5_Witness ==
  /\ reply = [op |-> "create-tab", result |-> [id |-> 2, url |-> ""]]
  /\ tabKeys(tabs) = <<1, 2>> /\ activeTabId = 2
  /\ ~tabs[1].visible /\ tabs[2].visible

\* C6 (as claimed): switch-tab or close-tab with an id that names no tab does
\* not answer success.
C6_UnknownIdReported ==
  [][\A id \in 1..(MaxTabs + 1) :
       (IpcSwitchTab(id) \/ IpcCloseTab(id)) /\ ~hasTab(tabs, id) =>
         reply'.result.success = FALSE]_vars

\* C7: switch-tab or close-tab with an id that names no tab changes no tab, not
\* the active tab, not the id counter, and sends nothing.
C7_UnknownIdNoOp ==
  [][\A id \in 1..(MaxTabs + 1) :
       (IpcSwitchTab(id) \/ IpcCloseTab(id)) /\ ~hasTab(tabs, id) =>
         UNCHANGED <<mainWindow, tabs, activeTabId, nextTabId, assigned, events>>]_vars

\* close-tab has answered although no tab was ever closed
C7_Witness ==
  /\ reply.op = "close-tab" /\ tabs # <<>> /\ Len(tabs) = Len(assigned)

\* C8: navigate with no active tab does what create-tab does; with an active
\* tab it calls loadURL on that tab and changes no tab, not the active tab, not
\* the id counter, and sends nothing.
C8_Navigate ==
  [][\A url \in Locations :
       IpcNavigate(url) =>
         IF activeTabId = NoTab
           THEN Opened(url)
           ELSE /\ wcCalls' = <<[tab |-> activeTabId, call |-> "loadURL", url |-> fullUrl(url)]>>
                /\ UNCHANGED <<mainWindow, tabs, activeTabId, nextTabId, assigned, events>>]_vars

\* navigate opened a tab because none was active
C8_Witness ==
  /\ reply.op = "navigate" /\ Len(tabs) = 1 /\ activeTabId = tabs[1].id
  /\ tabs[1].url = "example.com"
  /\ wcCalls = <<[tab |-> activeTabId, call |-> "loadURL", url |-> "https://example.com"]>>
  /\ Len(events) = 2 /\ events[2].type = "tab-created"

\* WebSockets that are open or being attempted
attempted(cs) == {c \in DOMAIN cs : cs[c] \in {"CONNECTING", "OPEN"}}

\* C9 (as claimed): at most one WebSocket to the backend is open or being
\* attempted at any moment.
C9_OneConnection == Cardinality(attempted(conns)) <= 1

\* C10: every close event marks the channel disconnected, logs one
\* "Disconnected" entry and schedules exactly one reconnection; a timer is
\* scheduled by nothing else, and each timer that fires makes exactly one
\* attempt; and while the backend is reachable a disconnected channel is
\* eventually connected again, however many attempts that takes.
C10_Reconnect ==
  /\ [][\A c \in DOMAIN conns :
          WsClose(c) =>
            /\ ~wsConnected'
            /\ logged' = <<[type |-> "error", text |-> "Disconnected from backend. Reconnecting..."]>>
            /\ timers' = timers + 1]_vars
  /\ [][timers' > timers => \E c \in DOMAIN conns : WsClose(c)]_vars
  /\ [][TimerFire =>
          /\ timers' = timers - 1
          /\ Cardinality(attempted(conns')) = Cardinality(attempted(conns)) + 1]_vars
  /\ (mounted /\ ~wsConnected) ~> (wsConnected \/ ~backendUp)

\* an attempt failed while the backend was down, and its close event scheduled
\* the next one
C10_Witness ==
  /\ ~backendUp /\ ~wsConnected /\ timers = 1 /\ attempted(conns) = {}
  /\ logged = <<[type |-> "error", text |-> "Disconnected from backend. Reconnecting..."]>>

\* the sends of audio, imagery and typed commands that BridgeSpec and VoiceSpec make
Sends == AudioProcess(Samples) \/ OnScreenshotCaptured(toBase64(Jpeg)) \/ SubmitText("go")

\* C11: a send issued while wsRef's socket is not open (for an action_result:
\* while the socket the action came on is not open) hands nothing to a socket
\* and changes nothing else, so nothing is kept of it; a frame is only ever
\* handed to a socket that is open, in the step that issues it; and the steps
\* of a reconnection (timer, new socket, open event) send nothing.
C11_DroppedNotBuffered ==
  /\ [][Sends /\ ~currentOpen(R) =>
          /\ sent' = <<>> /\ logged' = <<>>
          /\ UNCHANGED <<mainVars, uiVars, effectDep, conns, wsRef, wsConnected, timers>>
          /\ UNCHANGED <<voiceVars, inflight, actionSeq, closureTab, timerDeps>>]_vars
  /\ [][IpcReturns /\ (Head(inflight).conn = 0 \/ conns[Head(inflight).conn] # "OPEN") =>
          sent' = <<>> /\ inflight' = Tail(inflight)]_vars
  /\ [][sent' # <<>> =>
          /\ \A i \in DOMAIN sent' : conns[sent'[i].conn] = "OPEN"
          /\ Sends \/ IpcReturns \/ \E c \in DOMAIN conns, payload \in InboundTexts : WsMessage(c, payload)]_vars
  /\ [][(Mount \/ EffectRerun \/ TimerFire \/ \E c \in DOMAIN conns : WsOpen(c)) => sent' = <<>>]_vars

\* the socket of a suspended action has closed and a later socket is open: the
\* action_result about to be issued belongs to the disconnected period
C11_Witness ==
  /\ inflight # <<>> /\ Head(inflight).conn = 0
  /\ currentOpen(R) /\ wsConnected

\* C12 (as claimed): action_results are sent in the order their actions were
\* received: when one is sent, no action received before it is still waiting
\* for its own.
C12_ResultsInOrder ==
  [][\A i \in DOMAIN sent' :
       sent'[i].re # 0 => \A j \in DOMAIN inflight' : inflight'[j].n > sent'[i].re]_vars

\* C13 (as claimed): when the evaluation an execute-action call is suspended
\* in fails, or its tab has been closed meanwhile, the call answers with a
\* failed result {success: false, error}.
C13_FailureIsResult ==
  [][\A p \in pendingEval, ok \in BOOLEAN :
       EvalSettles(p, ok) /\ ~(ok /\ hasTab(tabs, p.tab)) =>
         /\ "result" \in DOMAIN reply'
         /\ reply'.result.success = FALSE
         /\ "error" \in DOMAIN reply'.result]_vars

\* C14 (as claimed): a microphone stream is being captured, and handed to
\* sendAudio, only while AgentState is listening.
C14_CaptureOnlyListening == capturing > 0 => agentState = "listening"

\* C15: AgentState is idle at the start, and every inbound status message sets
\* it to the state the message names, whatever it was.
C15_StatusOverwrites ==
  /\ agentState = "idle"
  /\ [][\A c \in DOMAIN conns, st \in StatusInputs :
          WsMessage(c, [json |-> [type |-> "status", state |-> st]]) => agentState' = st]_vars

\* a status of idle arrived while the microphone was being listened to
C15_Witness == agentState = "idle" /\ streamRef /\ capturing = 1 /\ micPending = 0

\* C16: AgentState changes only in a step of onStartListening (the microphone
\* was obtained), of stopListening (an orb click while listening) or of an
\* inbound status message; every other message, send, tab event and
\* connection event leaves it as it is.
C16_StateFrame ==
  [][agentState' # agentState =>
       \/ MicSettles(TRUE)
       \/ OrbClick /\ agentState = "listening"
       \/ \E c \in DOMAIN conns, st \in StatusInputs :
            WsMessage(c, [json |-> [type |-> "status", state |-> st]])]_vars

\* the socket closed while the agent was thinking, and it is thinking still
C16_Witness ==
  /\ agentState = "thinking"
  /\ logged = <<[type |-> "error", text |-> "Disconnected from backend. Reconnecting..."]>>

\* C17: an orb click in idle asks for the microphone and changes no state by
\* itself; when the microphone is obtained the state becomes listening, when
\* it is refused the state stays what it was, connected or not; an orb click
\* in listening makes the state idle.
C17_CaptureStartStop ==
  [][/\ OrbClick /\ agentState = "idle" =>
          agentState' = "idle" /\ micPending' = micPending + 1
     /\ MicSettles(TRUE) => agentState' = "listening"
     /\ MicSettles(FALSE) => agentState' = agentState /\ capturing' = capturing
     /\ OrbClick /\ agentState = "listening" => agentState' = "idle"]_vars

\* the microphone was obtained while no socket was open
C17_Witness ==
  /\ agentState = "listening" /\ capturing = 1
  /\ logged = <<[type |-> "agent", text |-> "Listening..."]>>
  /\ \A c \in DOMAIN conns : conns[c] # "OPEN"

\* C18: an inbound text that is not JSON changes nothing: no tab, no agent
\* state, no log entry, nothing sent, the socket stays open; and a transcript
\* that arrives after it is logged as usual.
C18_GarbageDiscarded ==
  /\ [][\A c \in DOMAIN conns :
          WsMessage(c, [garbage |-> "{oops"]) =>
            /\ sent' = <<>> /\ logged' = <<>>
            /\ conns'[c] = "OPEN"
            /\ UNCHANGED <<mainVars, uiVars, effectDep, conns, wsRef, wsConnected, timers>>
            /\ UNCHANGED <<voiceVars, inflight, actionSeq, closureTab, timerDeps>>]_vars
  /\ [][\A c \in DOMAIN conns :
          discarded /\ WsMessage(c, [json |-> [type |-> "transcript", text |-> "hello"]]) =>
            logged' = <<[type |-> "agent", text |-> "hello"]>> /\ ~discarded']_vars

\* the last inbound text was discarded while an action was suspended and the
\* microphone was being listened to
C18_Witness ==
  /\ discarded /\ currentOpen(R) /\ wsConnected
  /\ inflight # <<>> /\ agentState = "listening"
  /\ logged = <<>> /\ sent = <<>>

\* frame f is the one byte tag followed by the bytes of payload P
Framed(f, tag, P) ==
  /\ Len(f) = Len(P) + 1
  /\ f[1] = tag
  /\ \A i \in 1..Len(P) : f[i + 1] = P[i]

\* C19: on an open socket, a buffer of samples P is sent as exactly one binary
\* frame, 0x01 followed by the bytes of P, and an image whose bytes are P
\* (handed over in base64) as exactly one frame, 0x02 followed by the bytes of
\* P; for every P, the empty one included.
C19_Framing ==
  [][\A P \in Payloads :
       /\ AudioProcess(P) /\ currentOpen(R) =>
            /\ Len(sent') = 1 /\ sent'[1].kind = "binary" /\ sent'[1].conn = wsRef
            /\ Framed(sent'[1].bytes, 1, P)
       /\ OnScreenshotCaptured(toBase64(P)) /\ currentOpen(R) =>
            /\ Len(sent') = 1 /\ sent'[1].kind = "binary" /\ sent'[1].conn = wsRef
            /\ Framed(sent'[1].bytes, 2, P)]_vars

\* an image of two bytes, which base64 pads, was sent on the open socket
C19_Witness ==
  sent = <<binaryMsg(1, <<2, 255, 77>>)>> /\ currentOpen(R)

\* C20 (as claimed): once the renderer is up and every message the main process
\* sent has been delivered, the renderer's tab list holds exactly the ids of
\* the tabs in the main process's Map, the default tab of createWindow included.
C20_MirrorAgrees ==
  (mounted /\ events = <<>>) => idsOf(uiTabs) = idsOf(tabs)

\* the message a captured image is sent to the renderer as
snapshot(image) == [type |-> "screenshot-captured", data |-> toBase64(image)]

\* C21: a tick with no active tab, and a capture that fails or whose tab was
\* closed meanwhile, send nothing, begin no other capture and leave the
\* interval armed; the interval is armed whenever the window exists; and
\* afterwards a tick with an active tab captures it and a capture that succeeds
\* sends the image.
C21_SkipNotFatal ==
  /\ [](mainWindow => screenshotInterval > 0)
  /\ [][CaptureTick /\ activeTabId = NoTab =>
          /\ events' = events /\ wcCalls' = <<>>
          /\ UNCHANGED <<mainWindow, screenshotInterval, pendingCapture, tabs, activeTabId>>]_vars
  /\ [][\A p \in pendingCapture, image \in {<<>>, <<Jpeg>>} :
          CaptureSettles(p, image) /\ (image = <<>> \/ ~hasTab(tabs, p.tab)) =>
            /\ events' = events /\ wcCalls' = <<>>
            /\ pendingCapture' = pendingCapture \ {p}
            /\ UNCHANGED <<mainWindow, screenshotInterval, tabs, activeTabId>>]_vars
  /\ [][skipped /\ CaptureTick /\ activeTabId # NoTab =>
          /\ wcCalls' = <<[tab |-> activeTabId, call |-> "capturePage"]>>
          /\ [tab |-> activeTabId, stale |-> FALSE] \in pendingCapture']_vars
  /\ [][\A p \in pendingCapture :
          skipped /\ CaptureSettles(p, <<Jpeg>>) /\ hasTab(tabs, p.tab) /\ mainWindow =>
            events' = Append(events, snapshot(Jpeg))]_vars

\* the last callback to end sent nothing (tab 1 is closed), the interval is
\* armed and a capture of tab 2 is in flight
C21_Witness ==
  /\ mainWindow /\ skipped /\ screenshotInterval = 1
  /\ pendingCapture = {[tab |-> 2, stale |-> FALSE]}
  /\ tabKeys(tabs) = <<2>> /\ activeTabId = 2
  /\ wcCalls = <<[tab |-> 2, call |-> "capturePage"]>>

\* C22 (as claimed): a capture that was in flight when its window closed never
\* sends a snapshot.
C22_NoSnapshotAfterClose ==
  [][\A p \in pendingCapture, image \in {<<>>, <<Jpeg>>} :
       CaptureSettles(p, image) /\ p.stale => events' = events]_vars

\* C22: exactly one interval is armed while the window exists and none while
\* it does not; it is armed by createWindow and cleared by the window's closed
\* handler and by nothing else; closing the window awaits no capture and sends
\* nothing; and a capture that settles while no window exists sends nothing.
C22_LoopLifetime ==
  /\ [](screenshotInterval = IF mainWindow THEN 1 ELSE 0)
  /\ [][screenshotInterval' > screenshotInterval => CreateWindow]_vars
  /\ [][screenshotInterval' < screenshotInterval => WindowClosed]_vars
  /\ [][WindowClosed =>
          /\ events' = <<>>
          /\ {p.tab : p \in pendingCapture'} = {p.tab : p \in pendingCapture}
          /\ \A p \in pendingCapture' : p.stale]_vars
  /\ [][\A p \in pendingCapture, image \in {<<>>, <<Jpeg>>} :
          CaptureSettles(p, image) /\ ~mainWindow => events' = events /\ skipped']_vars

\* the window has closed with a capture in flight: the interval is cleared and
\* the capture is still to settle
C22_Witness ==
  /\ ~mainWindow /\ screenshotInterval = 0
  /\ pendingCapture = {[tab |-> 1, stale |-> TRUE]} /\ events = <<>>

\* C23 (as claimed): an inbound close_tab closes the tab that is active in the
\* main process when the message is handled.
C23_ClosesCurrentActive ==
  [][\A c \in DOMAIN conns :
       WsMessage(c, [json |-> [type |-> "action", action |-> "close_tab"]]) /\ activeTabId # NoTab =>
         ~hasTab(tabs', activeTabId)]_vars

\* ids of the tabs whose view is set visible
visibleTabs(ts) == {ts[i].id : i \in {j \in DOMAIN ts : ts[j].visible}}

\* C24: while the window exists, the tabs whose view is visible are exactly
\* the active tab, whose view is a child of the window, or none when no tab is
\* active; whatever was opened, activated and closed.
C24_OnlyActiveVisible ==
  mainWindow =>
    /\ visibleTabs(tabs) = IF activeTabId = NoTab THEN {} ELSE {activeTabId}
    /\ \A i \in DOMAIN tabs : tabs[i].id = activeTabId => tabs[i].attached

\* of three tabs the first was activated again
C24_Witness ==
  /\ mainWindow /\ reply.op = "switch-tab"
  /\ tabKeys(tabs) = <<1, 2, 3>> /\ activeTabId = 1
  /\ events # <<>> /\ events[Len(events)] = [type |-> "tab-switched", id |-> 1]

\* C25 (as claimed): scroll on the active tab scrolls by the amount given,
\* whatever it is, and by 500 only when none is given; upwards (negative) for
\* the direction "up" and downwards for every other direction.
C25_ScrollByAmount ==
  [][\A action \in ActionInputs, can \in BOOLEAN :
       IpcExecuteAction(action, can) /\ action.type = "scroll" /\ activeTabId # NoTab =>
         LET amount == IF "amount" \in DOMAIN action THEN action.amount ELSE 500
             up == "direction" \in DOMAIN action /\ action.direction = "up"
         IN wcCalls' = <<[tab |-> activeTabId, call |-> "executeJavaScript", js |-> "scrollBy",
                          dy |-> IF up THEN 0 - amount ELSE amount]>>]_vars

\* C26: type on the active tab sends, for the k-th character of the text, a
\* keyDown, a char and a keyUp input event for that character as the events
\* 3k-2, 3k-1 and 3k, and no other call, and answers success at once; for the
\* empty text, or none, it sends nothing and answers success.
C26_TypeTriples ==
  [][\A action \in ActionInputs, can \in BOOLEAN :
       IpcExecuteAction(action, can) /\ action.type = "type" /\ activeTabId # NoTab =>
         LET text == IF "text" \in DOMAIN action THEN action.text ELSE ""
         IN /\ Len(wcCalls') = 3 * Len(text)
            /\ \A k \in 1..Len(text) :
                 LET c == SubSeq(text, k, k)
                 IN /\ wcCalls'[3 * k - 2] = inputEvent(activeTabId, "keyDown", c)
                    /\ wcCalls'[3 * k - 1] = inputEvent(activeTabId, "char", c)
                    /\ wcCalls'[3 * k] = inputEvent(activeTabId, "keyUp", c)
            /\ reply' = [op |-> "execute-action", result |-> [success |-> TRUE]]
            /\ pendingEval' = pendingEval]_vars

\* "ab" was typed into tab 2
C26_Witness ==
  /\ activeTabId = 2 /\ Len(wcCalls) = 6
  /\ wcCalls[1] = inputEvent(2, "keyDown", "a") /\ wcCalls[6] = inputEvent(2, "keyUp", "b")
  /\ reply = [op |-> "execute-action", result |-> [success |-> TRUE]]

\* the tags execute-action has a case for
KnownTags == {"click", "type", "scroll", "enter", "back", "forward", "extract-text"}

\* text sub occurs in text str
contains(str, sub) ==
  \E i \in 1..(Len(str) - Len(sub) + 1) : SubSeq(str, i, i + Len(sub) - 1) = sub

\* C27 (as claimed): execute-action with a tag it has no case for answers, in
\* every state, with a failure whose error names the tag.
C27_UnknownTagNamed ==
  [][\A action \in ActionInputs, can \in BOOLEAN :
       IpcExecuteAction(action, can) /\ action.type \notin KnownTags =>
         /\ "result" \in DOMAIN reply' /\ ~reply'.result.success
         /\ contains(reply'.result.error, action.type)]_vars

\* C27: execute-action with a tag it has no case for, while a tab is active,
\* answers at once with the failure "Unknown action: " followed by the tag, and
\* makes no call on any webContents, suspends in no evaluation and changes no
\* tab; while no tab is active it makes no call either.
C27_UnknownTagRejected ==
  [][\A action \in ActionInputs, can \in BOOLEAN :
       IpcExecuteAction(action, can) /\ action.type \notin KnownTags =>
         /\ wcCalls' = <<>> /\ pendingEval' = pendingEval
         /\ UNCHANGED <<tabs, activeTabId, events>>
         /\ activeTabId # NoTab =>
              /\ reply' = [op |-> "execute-action",
                           result |-> [success |-> FALSE, error |-> "Unknown action: " \o action.type]]
              /\ contains(reply'.result.error, action.type)]_vars

\* the tag "submit" was rejected while tab 1 was active
C27_Witness ==
  /\ activeTabId = 1 /\ wcCalls = <<>>
  /\ reply = [op |-> "execute-action",
              result |-> [success |-> FALSE, error |-> "Unknown action: submit"]]

\* the tab-updated message for tab id
updated(id, url, title) == [type |-> "tab-updated", id |-> id, url |-> url, title |-> title]

\* what a notification for tab id may change: the url, or the title, of that
\* tab and of no other, with one tab-updated carrying both sent to the window
\* if there is one
OnlyUpdates(id, field, val) ==
  /\ Len(tabs') = Len(tabs)
  /\ \A i \in DOMAIN tabs :
       /\ tabs[i].id # id => tabs'[i] = tabs[i]
       /\ tabs[i].id = id =>
            /\ tabs'[i] = IF field = "url" THEN [tabs[i] EXCEPT !.url = val]
                                           ELSE [tabs[i] EXCEPT !.title = val]
            /\ events' = IF mainWindow
                           THEN Append(events, updated(id, tabs'[i].url, tabs'[i].title))
                           ELSE events
  /\ UNCHANGED <<mainWindow, activeTabId, nextTabId, assigned>>

C29_TabsLeaveTransport ==
  [][(conns' # conns \/ wsRef' # wsRef \/ timers' # timers) =>
       \/ Mount \/ WindowClosed \/ TimerFire
       \/ \E c \in DOMAIN conns : WsOpen(c) \/ WsError(c) \/ WsDrop(c) \/ WsClose(c)]_vars

\* C30: activeTabId is null or the id of a tab in the Map, and while the
\* window exists it is null only when the Map is empty.
C30_ActiveIsOwned ==
  /\ activeTabId = NoTab \/ hasTab(tabs, activeTabId)
  /\ mainWindow /\ activeTabId = NoTab => tabs = <<>>

\* the active tab 2 was closed, which activated tab 1, the one left in the Map
C30_Witness ==
  /\ mainWindow /\ tabKeys(tabs) = <<1>> /\ activeTabId = 1
  /\ assigned = <<1, 2>> /\ reply.op = "close-tab"
  /\ tabs[1].attached /\ tabs[1].visible

\* C31 (as claimed): wsConnected is true exactly when the WebSocket held in
\* wsRef is open.
C31_IndicatorMatchesChannel == wsConnected <=> currentOpen(R)

\* C32 (as claimed): AgentState is one of idle, listening, thinking and
\* speaking in every state, whatever the state field of an inbound status
\* message holds.
C32_AgentStateInEnum == agentState \in {"idle", "listening", "thinking", "speaking"}
====
